---------------------------- MODULE Spec2Model ----------------------------
(***************************************************************************)
(* A model of duplicate-identifier-action: the run of main (src/index.ts), *)
(* the helpers of utils (chunk, verifyJsonResponse, buildBatchUserContent, *)
(* buildCommentBody, verifyIssueStateInput, processDateInput) and the      *)
(* inference collaborator (ai.ts).                                         *)
(*                                                                         *)
(* Four specifications share the module:                                   *)
(*   Spec         one run of main, from the reading of the inputs on       *)
(*   SpecChunk    chunk(arr, size), one loop iteration per step            *)
(*   SpecVerify   verifyJsonResponse(data) on bounded JSON values          *)
(*   SpecComment  buildCommentBody(outputs, issuesToCompare)               *)
(***************************************************************************)
EXTENDS Integers, Sequences, FiniteSets, TLC

VARIABLES
    \* ---- one run of main ----
    pc,               \* position of main
    requiredInputs,   \* token, owner, repo, issue number, body and title are all set
    batchSizeInput,   \* getInput("batch_size")
    issueStateInput,  \* getInput("issue_state_filter")
    timeFilterInput,  \* getInput("time_filter")
    postComment,      \* getInput("post_comment") === "true"
    labels,           \* labels parsed from getInput("labels")
    batchSize,        \* JS number
    issueStateFilter, \* verifyIssueStateInput's result
    timeFilter,       \* processDateInput's result, "" when no time filter is given
    issuesToCompare,  \* what getIssuesToCompare returned
    batches,          \* chunk(issuesToCompare, batchSize)
    i,                \* index of the inference loop (0-based, as in the code)
    inFlight,         \* inference calls issued and not yet returned
    inferenceCalls,   \* the batches passed to aiInference, in call order
    externalCalls,    \* names of the collaborator calls made so far
    aiOutputs,        \* texts kept by the inference loop
    outcomes,         \* what aiInference returned for each batch, in order
    parsePos,         \* number of aiOutputs the parse loop has consumed
    parsedOutputs,    \* the aggregate
    commentBody,      \* text rendered by main
    error,            \* message of the error that ended the run, or ""
    failedMark,       \* core.setFailed has been called
    requestOutcomes,  \* how the request of each aiInference call ended, in order
    listRequests,     \* the requests sent to issues.listForRepo, in order
    commentSuccess,   \* createIssueComment's result: "none" until it is called
    addLabelsSuccess, \* addIssueLabels' result: "none" until it is called
    summaryWritten,   \* summary.write() has been called
    \* ---- chunk, stepwise ----
    arr, size, chunk_i, out, chunkPc,
    \* ---- verifyJsonResponse ----
    data, verdict,
    \* ---- buildCommentBody ----
    outputs, candidates, body,
    \* ---- getIssuesToCompare, stepwise ----
    issueNumber,      \* number of the issue the run is about
    collected,        \* issues collected so far
    page,             \* number of the page to request next
    pageRequests,     \* the options of the listForRepo requests sent, in order
    received,         \* how each request ended: the raw page, or an error
    pagesPc,          \* "idle", "request", "awaiting" or "returned"
    returnValue       \* what getIssuesToCompare returned

mainVars == <<pc, requiredInputs, batchSizeInput, issueStateInput, timeFilterInput,
              postComment, labels, batchSize, issueStateFilter, timeFilter,
              issuesToCompare, batches, i, inFlight, inferenceCalls, externalCalls,
              aiOutputs, outcomes, parsePos, parsedOutputs, commentBody, error,
              failedMark, requestOutcomes, listRequests, commentSuccess,
              addLabelsSuccess, summaryWritten>>
chunkVars == <<arr, size, chunk_i, out, chunkPc>>
verifyVars == <<data, verdict>>
commentVars == <<outputs, candidates, body>>
pagesVars == <<issueNumber, collected, page, pageRequests, received, pagesPc, returnValue>>
vars == <<mainVars, chunkVars, verifyVars, commentVars, pagesVars>>

-----------------------------------------------------------------------------
(* Bounds of the model. *)

\* longest array given to chunk in SpecChunk
MaxArr == 4
\* largest size given to chunk in SpecChunk (sizes range over -1..MaxSize and NaN)
MaxSize == 3
\* iterations after which a chunk loop that has not ended is cut off
MaxOut == 6
\* longest array given to verifyJsonResponse in SpecVerify
MaxItems == 2
\* longest results list given to buildCommentBody in SpecComment
MaxResults == 2
\* longest candidate list given to buildCommentBody in SpecComment
MaxCands == 2
\* most candidates getIssuesToCompare returns in Spec
MaxIssues == 7
\* most pages the issue source holds in SpecPages
MaxPages == 3

-----------------------------------------------------------------------------
(* JavaScript numbers: the integers and NaN. *)

Num(n) == [nan |-> FALSE, n |-> n]
NaN == [nan |-> TRUE, n |-> 0]

\* a < b, a <= b, a > b: false as soon as an operand is NaN
JsLt(a, b) == ~a.nan /\ ~b.nan /\ a.n < b.n
JsLe(a, b) == ~a.nan /\ ~b.nan /\ a.n <= b.n
JsGt(a, b) == ~a.nan /\ ~b.nan /\ a.n > b.n
\* a + b
JsAdd(a, b) == IF a.nan \/ b.nan THEN NaN ELSE Num(a.n + b.n)

Min(a, b) == IF a < b THEN a ELSE b
Max(a, b) == IF a > b THEN a ELSE b

\* Array.prototype.slice's reading of a bound: NaN is 0, a negative bound
\* counts from the end, and the result is clamped to 0..len.
SliceBound(x, len) ==
    LET rel == IF x.nan THEN 0 ELSE x.n
    IN  IF rel < 0 THEN Max(len + rel, 0) ELSE Min(rel, len)

\* arr.slice(start, end), start and end JS numbers (0-based, end exclusive)
sliceDropsLast(a, start, end) ==
    LET from == SliceBound(start, Len(a))
        to == SliceBound(end, Len(a)) - 1
    IN  IF to > from THEN SubSeq(a, from + 1, to) ELSE <<>>
slice(a, start, end) ==
    LET from == SliceBound(start, Len(a))
        to == SliceBound(end, Len(a))
    IN  IF to > from THEN SubSeq(a, from + 1, to) ELSE <<>>

-----------------------------------------------------------------------------
(* chunk (utils): for (let i = 0; i < arr.length; i += size)               *)
(*                    out.push(arr.slice(i, i + size));                    *)

\* the loop's condition
ChunkCond(a, ci) == JsLt(ci, Num(Len(a)))
\* the loop's body: out after the push
ChunkPush(a, sz, ci, o) == Append(o, slice(a, ci, JsAdd(ci, sz)))
\* the loop's increment
ChunkStep(sz, ci) == JsAdd(ci, sz)

RECURSIVE chunkLoop(_, _, _, _)
chunkLoop(a, sz, ci, o) ==
    IF ChunkCond(a, ci)
    THEN chunkLoop(a, sz, ChunkStep(sz, ci), ChunkPush(a, sz, ci, o))
    ELSE o

\* chunk(arr, size) as one call; it returns only when the loop ends, which
\* it does for size > 0, for size NaN, and for an empty arr
chunk(a, sz) == chunkLoop(a, sz, Num(0), <<>>)

-----------------------------------------------------------------------------
(* JSON values, as JSON.parse returns them.  An object carries the three   *)
(* properties the program reads; a property the text does not give is      *)
(* Undefined, which is what reading it yields.                             *)

Undefined == [t |-> "undefined"]
JNull == [t |-> "null"]
JNum(n) == [t |-> "number", n |-> n]
JStr(s) == [t |-> "string", s |-> s]
JBool(b) == [t |-> "boolean", b |-> b]
JArr(a) == [t |-> "array", a |-> a]
JObj(issue, likelihood, reason) ==
    [t |-> "object", issue |-> issue, likelihood |-> likelihood, reason |-> reason]
EmptyObj == JObj(Undefined, Undefined, Undefined)

\* typeof v
TypeOf(v) == IF v.t \in {"null", "array", "object"} THEN "object" ELSE v.t
\* Array.isArray(v)
IsArray(v) == v.t = "array"
\* v.issue, v.likelihood, v.reason of a non-null value of type object: an
\* array parsed from JSON has none of them
Prop(v, k) ==
    IF v.t = "object"
    THEN CASE k = "issue" -> v.issue
           [] k = "likelihood" -> v.likelihood
           [] k = "reason" -> v.reason
    ELSE Undefined
\* v == null
IsNullish(v) == v.t \in {"undefined", "null"}
\* !v
Falsy(v) ==
    \/ IsNullish(v)
    \/ v.t = "string" /\ v.s = ""
    \/ v.t = "number" /\ v.n = 0
    \/ v.t = "boolean" /\ ~v.b

\* String.prototype.toLowerCase on the strings of the model
ToLowerCase(s) ==
    CASE s = "HIGH" -> "high"
      [] s = "High" -> "high"
      [] s = "Medium" -> "medium"
      [] s = "LOW" -> "low"
      [] s = "Low" -> "low"
      [] OTHER -> s

\* `${v}` in a template literal
TemplateText(v) ==
    CASE v.t = "number" -> ToString(v.n)
      [] v.t = "string" -> v.s
      [] v.t = "boolean" -> (IF v.b THEN "true" ELSE "false")
      [] v.t = "null" -> "null"
      [] v.t = "undefined" -> "undefined"
      [] v.t = "array" -> (IF v.a = <<>> THEN "" ELSE "[array]")
      [] v.t = "object" -> "[object Object]"

-----------------------------------------------------------------------------
(* verifyJsonResponse (utils).  The outcome is "true", "false" or "threw". *)

ValidLikelihoods == {"high", "medium", "low"}

\* ["high","medium","low"].includes(item?.likelihood?.toLowerCase()):
\* "yes", "no", or "threw" when likelihood is neither nullish nor a string
\* (toLowerCase is then not a function, and calling it is a TypeError)
LikelihoodIncluded(item) ==
    LET lk == Prop(item, "likelihood")
    IN  IF IsNullish(lk) THEN "no"
        ELSE IF lk.t # "string" THEN "threw"
        ELSE IF ToLowerCase(lk.s) \in ValidLikelihoods THEN "yes" ELSE "no"

RECURSIVE verifyItems(_, _)
verifyItems(items, k) ==
    IF k > Len(items) THEN "true"
    ELSE LET item == items[k]
         IN  IF TypeOf(item) # "object" \/ item = JNull THEN "false"
             ELSE IF TypeOf(Prop(item, "issue")) # "number" THEN "false"
             ELSE LET inc == LikelihoodIncluded(item)
                  IN  IF inc = "threw" THEN "threw"
                      ELSE IF inc = "no" THEN "false"
                      ELSE verifyItems(items, k + 1)

verifyJsonResponse(d) ==
    IF ~IsArray(d) THEN "false" ELSE verifyItems(d.a, 1)

-----------------------------------------------------------------------------
(* buildCommentBody (utils).  An Issue is [number, title, body, state];    *)
(* createdAt and updatedAt are never read and are left out.                *)

Issue(number, title, state) ==
    [number |-> number, title |-> title, body |-> "", state |-> state]

\* the heading, without its warning sign (TLA+ strings are ASCII)
CommentHeading ==
    "## Potential Duplicate/Semantically Similar Issues Identified"
CommentIntro ==
    "The following issues may be duplicates or semantically similar to the current issue. Please review them:"
NoSimilar == "No similar issues found."

\* issuesToCompare.find(({ number }) => number === issue): the index of the
\* first match from k on, 0 when there is none
RECURSIVE findIndex(_, _, _)
findIndex(cands, issue, k) ==
    IF k > Len(cands) THEN 0
    ELSE IF issue.t = "number" /\ cands[k].number = issue.n THEN k
    ELSE findIndex(cands, issue, k + 1)

\* s || "N/A" for a string s
OrNA(s) == IF s = "" THEN "N/A" ELSE s

\* the five lines pushed for one output
outputLinesNoFallback(output, cands) ==
    LET j == findIndex(cands, output.issue, 1)
    IN  << "**Issue** #" \o TemplateText(output.issue) \o ": **"
              \o TemplateText(output.likelihood) \o "**",
           "**Title:** " \o (IF j = 0 THEN "N/A" ELSE cands[j].title),
           "**State:** " \o (IF j = 0 THEN "N/A" ELSE cands[j].state),
           "**Reason:** " \o TemplateText(Prop(output, "reason")),
           "" >>
OutputLines(output, cands) ==
    LET j == findIndex(cands, output.issue, 1)
    IN  << "**Issue** #" \o TemplateText(output.issue) \o ": **"
              \o TemplateText(output.likelihood) \o "**",
           "**Title:** " \o (IF j = 0 THEN "N/A" ELSE OrNA(cands[j].title)),
           "**State:** " \o (IF j = 0 THEN "N/A" ELSE OrNA(cands[j].state)),
           "**Reason:** " \o (IF Falsy(Prop(output, "reason")) THEN "N/A"
                              ELSE TemplateText(Prop(output, "reason"))),
           "" >>

RECURSIVE commentLinesFrom(_, _, _, _)
commentLinesFrom(outs, cands, k, lines) ==
    IF k > Len(outs) THEN lines
    ELSE commentLinesFrom(outs, cands, k + 1, lines \o OutputLines(outs[k], cands))

\* lines.join(sep)
RECURSIVE Join(_, _)
Join(lines, sep) ==
    IF lines = <<>> THEN ""
    ELSE IF Len(lines) = 1 THEN lines[1]
    ELSE lines[1] \o sep \o Join(Tail(lines), sep)

buildCommentBody(outs, cands) ==
    IF Len(outs) = 0 THEN NoSimilar
    ELSE Join(commentLinesFrom(outs, cands, 1,
                               <<CommentHeading, CommentIntro, "">>), "\n")

-----------------------------------------------------------------------------
(* The parts of the state a specification does not use stay as they are    *)
(* set here.                                                               *)

BoundedSeqs(S, n) == UNION {[1..k -> S] : k \in 0..n}

MainIdle ==
    /\ pc = "idle"
    /\ requiredInputs = TRUE
    /\ issueStateFilter = ""
    /\ timeFilter = ""
    /\ failedMark = FALSE
    /\ requestOutcomes = <<>>
    /\ listRequests = <<>>
    /\ commentSuccess = "none"
    /\ addLabelsSuccess = "none"
    /\ summaryWritten = FALSE
    /\ batchSizeInput = ""
    /\ issueStateInput = ""
    /\ timeFilterInput = ""
    /\ postComment = FALSE
    /\ labels = <<>>
    /\ batchSize = NaN
    /\ issuesToCompare = <<>>
    /\ batches = <<>>
    /\ i = 0
    /\ inFlight = 0
    /\ inferenceCalls = <<>>
    /\ externalCalls = <<>>
    /\ aiOutputs = <<>>
    /\ outcomes = <<>>
    /\ parsePos = 0
    /\ parsedOutputs = <<>>
    /\ commentBody = ""
    /\ error = ""
ChunkIdle ==
    /\ arr = <<>>
    /\ size = NaN
    /\ chunk_i = Num(0)
    /\ out = <<>>
    /\ chunkPc = "idle"
VerifyIdle ==
    /\ data = Undefined
    /\ verdict = "idle"
CommentIdle ==
    /\ outputs = <<>>
    /\ candidates = <<>>
    /\ body = "idle"
PagesIdle ==
    /\ issueNumber = 0
    /\ collected = <<>>
    /\ page = 0
    /\ pageRequests = <<>>
    /\ received = <<>>
    /\ pagesPc = "idle"
    /\ returnValue = <<>>

-----------------------------------------------------------------------------
(* SpecChunk: chunk(arr, size), one iteration of its loop per step.        *)

ChunkElems == {1, 2}
ChunkSizes == {Num(k) : k \in -1..MaxSize} \cup {NaN}

ChunkInit ==
    /\ arr \in BoundedSeqs(ChunkElems, MaxArr)
    /\ size \in ChunkSizes
    /\ chunk_i = Num(0)
    /\ out = <<>>
    /\ chunkPc = "loop"
    /\ MainIdle /\ VerifyIdle /\ CommentIdle /\ PagesIdle

\* i < arr.length holds: push a slice and add size to i.  A loop that has
\* run MaxOut times without ending is followed no further.
ChunkIterate ==
    /\ chunkPc = "loop"
    /\ ChunkCond(arr, chunk_i)
    /\ Len(out) < MaxOut
    /\ out' = ChunkPush(arr, size, chunk_i, out)
    /\ chunk_i' = ChunkStep(size, chunk_i)
    /\ UNCHANGED <<arr, size, chunkPc, mainVars, verifyVars, commentVars, pagesVars>>

\* i < arr.length fails: return out
ChunkReturn ==
    /\ chunkPc = "loop"
    /\ ~ChunkCond(arr, chunk_i)
    /\ chunkPc' = "returned"
    /\ UNCHANGED <<arr, size, chunk_i, out, mainVars, verifyVars, commentVars, pagesVars>>

ChunkNext == ChunkIterate \/ ChunkReturn
SpecChunk == ChunkInit /\ [][ChunkNext]_vars

-----------------------------------------------------------------------------
(* SpecVerify: verifyJsonResponse(data) on bounded JSON values.            *)

VerifyIssues == {Undefined, JNum(1), JStr("1")}
VerifyLikelihoods ==
    {Undefined, JNull, JStr("high"), JStr("Medium"), JStr("LOW"), JStr("certain"),
     JNum(5), JBool(TRUE), EmptyObj, JArr(<<>>)}
VerifyReasons == {Undefined, JStr("r")}
VerifyElems ==
    {JObj(is, lk, rs) : is \in VerifyIssues, lk \in VerifyLikelihoods, rs \in VerifyReasons}
        \cup {JNum(1), JNull, JArr(<<>>)}
VerifyInputs ==
    {JArr(a) : a \in BoundedSeqs(VerifyElems, MaxItems)}
        \cup {JObj(JNum(1), JStr("high"), Undefined), JNum(1), JStr("high"), JNull}

VerifyInit ==
    /\ data \in VerifyInputs
    /\ verdict = "pending"
    /\ MainIdle /\ ChunkIdle /\ CommentIdle /\ PagesIdle

CallVerifyJsonResponse ==
    /\ verdict = "pending"
    /\ verdict' = verifyJsonResponse(data)
    /\ UNCHANGED <<data, mainVars, chunkVars, commentVars, pagesVars>>

VerifyNext == CallVerifyJsonResponse
SpecVerify == VerifyInit /\ [][VerifyNext]_vars

-----------------------------------------------------------------------------
(* SpecComment: buildCommentBody(outputs, issuesToCompare) on validated    *)
(* outputs and bounded candidate lists; two candidates may share a number. *)

CommentOutputs ==
    {JObj(JNum(n), JStr(lk), rs) :
        n \in {1, 3}, lk \in {"high", "Low"}, rs \in {Undefined, JStr(""), JStr("r")}}
CommentCandidates ==
    {Issue(1, "T1", "open"), Issue(1, "", "closed"), Issue(2, "T2", "")}

CommentInit ==
    /\ outputs \in BoundedSeqs(CommentOutputs, MaxResults)
    /\ candidates \in BoundedSeqs(CommentCandidates, MaxCands)
    /\ body = ""
    /\ MainIdle /\ ChunkIdle /\ VerifyIdle /\ PagesIdle

CallBuildCommentBody ==
    /\ body = ""
    /\ body' = buildCommentBody(outputs, candidates)
    /\ UNCHANGED <<outputs, candidates, mainVars, chunkVars, verifyVars, pagesVars>>

CommentNext == CallBuildCommentBody
SpecComment == CommentInit /\ [][CommentNext]_vars

-----------------------------------------------------------------------------
(* Properties of verifyJsonResponse, under SpecVerify.                     *)

\* the rules of the validator, stated on the value alone
ElementAccepted(e) ==
    /\ e.t = "object"
    /\ e.issue.t = "number"
    /\ e.likelihood.t = "string"
    /\ ToLowerCase(e.likelihood.s) \in {"high", "medium", "low"}
Accepted(d) == d.t = "array" /\ \A k \in 1..Len(d.a) : ElementAccepted(d.a[k])

\* C3: verifyJsonResponse(v) returns true exactly when v is an array whose
\* every element is a non-null, non-array object with a numeric issue and a
\* likelihood that lower-cases to high, medium or low; any element failing a
\* rule makes the result false; reason has no influence.
C3_VerifyExact ==
    verdict \notin {"pending", "idle"} =>
        /\ verdict = "true" <=> Accepted(data)
        /\ ~Accepted(data) => verdict = "false"

\* C4: verifyJsonResponse never raises; malformed input yields false.
C4_VerifyNeverThrows == verdict # "threw"

-----------------------------------------------------------------------------
(* Properties of chunk, under SpecChunk.                                   *)

RECURSIVE Flatten(_)
Flatten(ss) == IF ss = <<>> THEN <<>> ELSE Head(ss) \o Flatten(Tail(ss))

C5_Partition ==
    (chunkPc = "returned" /\ ~size.nan /\ size.n > 0) =>
        LET k == size.n
            n == Len(arr)
        IN  /\ Flatten(out) = arr
            /\ Len(out) = (n + k - 1) \div k
            /\ \A j \in 1..Len(out) :
                  /\ Len(out[j]) \in 1..k
                  /\ j < Len(out) => Len(out[j]) = k
                  /\ out[j] = SubSeq(arr, (j - 1) * k + 1, Min(j * k, n))
            /\ arr = <<>> => out = <<>>

\* C5: for size k > 0, chunk(S, k) returns contiguous slices that concatenate
\* back to S, each of length in 1..k and all but the last of length k,
\* ceil(|S|/k) of them, none for the empty S; and S is never modified.
C5_ChunkPartitions == []C5_Partition /\ [][arr' = arr]_vars

\* a call with a remainder: 4 elements in batches of 3
C5_Witness ==
    /\ chunkPc = "returned"
    /\ size = Num(3)
    /\ Len(arr) = 4
    /\ Len(out) = 2
    /\ Len(out[2]) = 1

\* C9: chunk called with size <= 0 fails with InvalidArgument for every
\* input: it pushes no batch, and it does not return a batch list.
C9_NonPositiveSizeFails ==
    (~size.nan /\ size.n <= 0 /\ chunkPc # "idle") =>
        /\ out = <<>>
        /\ chunkPc # "returned"

-----------------------------------------------------------------------------
(* Properties of buildCommentBody, under SpecComment.                      *)

\* the candidate a result is looked up to: the first whose number is the
\* result's issue
Matches(result) == {j \in 1..Len(candidates) : candidates[j].number = result.issue.n}
FirstMatch(result) == CHOOSE j \in Matches(result) : \A h \in Matches(result) : j <= h

ExpectedTitle(result) ==
    IF Matches(result) = {} \/ candidates[FirstMatch(result)].title = ""
    THEN "N/A" ELSE candidates[FirstMatch(result)].title
ExpectedState(result) ==
    IF Matches(result) = {} \/ candidates[FirstMatch(result)].state = ""
    THEN "N/A" ELSE candidates[FirstMatch(result)].state
ExpectedReason(result) ==
    IF result.reason = Undefined \/ result.reason = JStr("") THEN "N/A"
    ELSE result.reason.s

\* line n of the report: three fixed lines, then five lines per result
ExpectedLine(n) ==
    IF n = 1 THEN CommentHeading
    ELSE IF n = 2 THEN CommentIntro
    ELSE IF n = 3 THEN ""
    ELSE LET result == outputs[((n - 4) \div 5) + 1]
             field == (n - 4) % 5
         IN  CASE field = 0 -> "**Issue** #" \o ToString(result.issue.n) \o ": **"
                                  \o result.likelihood.s \o "**"
               [] field = 1 -> "**Title:** " \o ExpectedTitle(result)
               [] field = 2 -> "**State:** " \o ExpectedState(result)
               [] field = 3 -> "**Reason:** " \o ExpectedReason(result)
               [] field = 4 -> ""

\* C10: buildCommentBody returns "No similar issues found." for no results;
\* otherwise the heading, the explanatory line and a blank line, then for
\* each result in order its Issue/likelihood, Title, State and Reason lines
\* and a blank line, with title and state of the first candidate of that
\* number and "N/A" for a missing candidate, an empty value or no reason.
C10_CommentBody ==
    body \notin {"", "idle"} =>
        IF outputs = <<>> THEN body = "No similar issues found."
        ELSE body = Join([n \in 1..(3 + 5 * Len(outputs)) |-> ExpectedLine(n)], "\n")

\* a report with a result whose issue no candidate has, and one looked up
\* among two candidates of the same number
C10_Witness ==
    /\ body \notin {"", "idle"}
    /\ Len(outputs) = 2
    /\ Matches(outputs[1]) = {}
    /\ Cardinality(Matches(outputs[2])) = 2
    /\ outputs[2].reason = Undefined

-----------------------------------------------------------------------------
(* Spec: one run of main (index.ts).                                       *)

\* parseInt(s, 10) on the inputs of the model
ParseInt(s) ==
    CASE s = "abc" -> NaN
      [] s = "-1" -> Num(-1)
      [] s = "0" -> Num(0)
      [] s = "3" -> Num(3)
      [] s = "100" -> Num(100)
      [] s = "101" -> Num(101)

DefaultBatchSize == 50
MaxBatchSize == 100

\* getInput("batch_size") ? parseInt(getInput("batch_size"), 10) : 50
BatchSizeOf(input) == IF input # "" THEN ParseInt(input) ELSE Num(DefaultBatchSize)
\* batchSize <= 0 || batchSize > 100
BatchSizeRejected(bs) == JsLe(bs, Num(0)) \/ JsGt(bs, Num(MaxBatchSize))

\* verifyIssueStateInput (utils)
ValidStates == {"all", "open", "closed"}
IssueStateValid(st) == st \in ValidStates
IssueStateError(st) ==
    "Invalid issue state: " \o st \o ". Valid states are: all, open, closed"

\* processDateInput (utils): new Date(date) on the inputs of the model, ""
\* standing for an invalid date
DateToISOString(date) ==
    CASE date = "2023-10-01" -> "2023-10-01T00:00:00.000Z"
      [] date = "2023-10-01T12:00:00Z" -> "2023-10-01T12:00:00.000Z"
      [] OTHER -> ""
DateValid(date) == DateToISOString(date) # ""
DateError(date) == "Invalid date format: " \o date \o ". Please provide a valid date."

\* the error start-up ends with, "" when it ends with none (lines 28-56)
StartupError(req, bsInput, stInput, tfInput) ==
    IF ~req THEN "Required inputs are not set"
    ELSE IF BatchSizeRejected(BatchSizeOf(bsInput))
         THEN "batch_size must be between 1 and 100"
    ELSE IF ~IssueStateValid(stInput) THEN IssueStateError(stInput)
    ELSE IF tfInput # "" /\ ~DateValid(tfInput) THEN DateError(tfInput)
    ELSE ""

BatchSizeInputs == {"", "abc", "-1", "0", "3", "100", "101"}
IssueStateInputs == {"all", "open", "closed", "OPEN", ""}
TimeFilterInputs == {"", "2023-10-01", "invalid-date"}
LabelInputs == {<<>>, <<"duplicate">>}

\* the candidates the issue source returns: issues 1..n, the second untitled
CandidateList(n) ==
    [j \in 1..n |-> Issue(j, IF j = 2 THEN "" ELSE "T" \o ToString(j),
                          IF j % 2 = 0 THEN "closed" ELSE "open")]

\* the texts the model may answer with
TextProse == "I found no similar issues."
TextEmptyArray == "[]"
TextOne == "[{\"issue\":1,\"likelihood\":\"high\",\"reason\":\"same bug\"}]"
TextTwo == "[{\"issue\":4,\"likelihood\":\"Medium\"},{\"issue\":2,\"likelihood\":\"low\"}]"
TextPartlyInvalid ==
    "[{\"issue\":3,\"likelihood\":\"high\"},{\"issue\":\"5\",\"likelihood\":\"low\"}]"
TextNumericLikelihood == "[{\"issue\":1,\"likelihood\":5}]"
Texts == {"", TextProse, TextEmptyArray, TextOne, TextTwo, TextPartlyInvalid,
          TextNumericLikelihood}

\* JSON.parse on the texts of the model: the value, or threw
JsonParse(text) ==
    CASE text = TextEmptyArray -> [threw |-> FALSE, value |-> JArr(<<>>)]
      [] text = TextOne ->
            [threw |-> FALSE,
             value |-> JArr(<<JObj(JNum(1), JStr("high"), JStr("same bug"))>>)]
      [] text = TextTwo ->
            [threw |-> FALSE,
             value |-> JArr(<<JObj(JNum(4), JStr("Medium"), Undefined),
                              JObj(JNum(2), JStr("low"), Undefined)>>)]
      [] text = TextPartlyInvalid ->
            [threw |-> FALSE,
             value |-> JArr(<<JObj(JNum(3), JStr("high"), Undefined),
                              JObj(JStr("5"), JStr("low"), Undefined)>>)]
      [] text = TextNumericLikelihood ->
            [threw |-> FALSE, value |-> JArr(<<JObj(JNum(1), JNum(5), Undefined)>>)]
      [] OTHER -> [threw |-> TRUE, value |-> Undefined]

\* what the chat-completions request of one aiInference call ends in: a
\* message content, a reply without content, or an error
RequestOutcomes ==
    {[kind |-> "content", text |-> t] : t \in Texts}
        \cup {[kind |-> "nocontent"], [kind |-> "error"]}

\* aiInference (ai.ts): the text, or undefined when there is none or the
\* request failed
AiInferenceResult(o) == IF o.kind = "content" THEN JStr(o.text) ELSE Undefined
\* the catch block calls core.setFailed
\* a variant whose catch block only logs
aiInferenceNeverSetsFailed(o) == FALSE
AiInferenceSetsFailed(o) == o.kind = "error"

\* buildBatchUserContent throws on batch.length === 0
\* a variant that also rejects a batch of one
batchIsEmptyOrSingle(batch) == Len(batch) <= 1
BatchIsEmpty(batch) == Len(batch) = 0
\* the batch header's batchId, (i + 1) / batches.length, as a template
\* literal prints it: an integer when the division is exact, else the
\* decimal expansion of the quotient
BatchIdText(num, den) ==
    IF num % den = 0 THEN ToString(num \div den)
    ELSE CASE <<num, den>> = <<1, 2>> -> "0.5"
           [] <<num, den>> = <<1, 3>> -> "0.3333333333333333"
           [] <<num, den>> = <<2, 3>> -> "0.6666666666666666"
           [] <<num, den>> = <<1, 4>> -> "0.25"
           [] <<num, den>> = <<2, 4>> -> "0.5"
           [] <<num, den>> = <<3, 4>> -> "0.75"
           [] OTHER -> ToString(num) \o "/" \o ToString(den)
\* buildBatchUserContent's header line (utils, line 135)
BatchHeaderLine(num, den) == "Candidate Issues (Batch " \o BatchIdText(num, den) \o "):"
\* what the prompt is built from: batchId = (i + 1) / batches.length
UserContent(idx, bs) ==
    [batchId |-> <<idx + 1, Len(bs)>>, batch |-> bs[idx + 1],
     header |-> BatchHeaderLine(idx + 1, Len(bs))]

\* the inference loop's condition, i < batches.length
loopStopsOneEarly(idx, bs) == idx + 1 < Len(bs)
LoopContinues(idx, bs) == idx < Len(bs)

\* if (aiResponse) aiOutputs.push(aiResponse)
\* a variant that puts the latest text first
keepResponseInFront(kept, resp) == IF ~Falsy(resp) THEN <<resp.s>> \o kept ELSE kept
KeepResponse(kept, resp) == IF ~Falsy(resp) THEN Append(kept, resp.s) ELSE kept

\* one iteration of the parse loop: parsedOutputs after it
parseStepResetsOnFailure(po, response) ==
    LET parsed == JsonParse(response)
    IN  IF parsed.threw THEN <<>>
        ELSE IF verifyJsonResponse(parsed.value) = "true"
             THEN po \o parsed.value.a
        ELSE <<>>
parseStepPrepends(po, response) ==
    LET parsed == JsonParse(response)
    IN  IF parsed.threw THEN po
        ELSE IF verifyJsonResponse(parsed.value) = "true"
             THEN parsed.value.a \o po
        ELSE po
ParseStep(po, response) ==
    LET parsed == JsonParse(response)
    IN  IF parsed.threw THEN po                       \* catch: continue
        ELSE LET ok == verifyJsonResponse(parsed.value)
             IN  IF ok = "threw" THEN po              \* catch: continue
                 ELSE IF ok = "true"
                      THEN IF Len(parsed.value.a) # 0
                           THEN po \o parsed.value.a  \* parsedOutputs.concat(parsed)
                           ELSE po
                 ELSE po                              \* continue

\* Number(s) for a string s: the decimal numerals up to MaxBatchSize, the
\* empty string (0), anything else NaN
StringToNumber(s) ==
    IF s = "" THEN Num(0)
    ELSE IF \E k \in 0..MaxBatchSize : ToString(k) = s
         THEN Num(CHOOSE k \in 0..MaxBatchSize : ToString(k) = s)
         ELSE NaN

\* number == v, the loose equality of line 201, for an issue number
LooseEquals(number, v) ==
    CASE v.t = "number" -> number = v.n
      [] v.t = "string" -> StringToNumber(v.s) = Num(number)
      [] v.t = "boolean" -> number = (IF v.b THEN 1 ELSE 0)
      [] v.t = "array" -> v.a = <<>> /\ number = 0
      [] OTHER -> FALSE

\* issuesToCompare.find(({ number }) => number == issue)
RECURSIVE findIndexLoose(_, _, _)
findIndexLoose(cands, issue, k) ==
    IF k > Len(cands) THEN 0
    ELSE IF LooseEquals(cands[k].number, issue) THEN k
    ELSE findIndexLoose(cands, issue, k + 1)

\* a variant that pushes the five lines of buildCommentBody
mainOutputLinesKeepState(output, cands) == OutputLines(output, cands)
\* the comment main renders (lines 194-207): no State line
MainOutputLines(output, cands) ==
    LET j == findIndexLoose(cands, output.issue, 1)
    IN  << "**Issue** #" \o TemplateText(output.issue) \o ": **"
              \o TemplateText(output.likelihood) \o "**",
           "**Title:** " \o (IF j = 0 THEN "N/A" ELSE OrNA(cands[j].title)),
           "**Reason:** " \o (IF Falsy(Prop(output, "reason")) THEN "N/A"
                              ELSE TemplateText(Prop(output, "reason"))),
           "" >>
RECURSIVE mainCommentLinesFrom(_, _, _, _)
mainCommentLinesFrom(outs, cands, k, lines) ==
    IF k > Len(outs) THEN lines
    ELSE mainCommentLinesFrom(outs, cands, k + 1, lines \o MainOutputLines(outs[k], cands))
MainCommentBody(outs, cands) ==
    Join(mainCommentLinesFrom(outs, cands, 1, <<CommentHeading, CommentIntro, "">>), "\n")


\* the argument main passes to getIssuesToCompare (lines 82-89): its
\* properties are issueStateFilter and timeFilter
GetIssuesArgs(stateFilter, tf) ==
    [issueStateFilter |-> JStr(stateFilter),
     timeFilter |-> IF tf = "" THEN Undefined ELSE JStr(tf)]
\* a destructured parameter: undefined when the argument has no such property
Param(args, name) == IF name \in DOMAIN args THEN args[name] ELSE Undefined
PerPage == 100
\* getIssuesToCompare's request (api.ts, lines 8-32): it destructures
\* issueState and timeFilter; since is given only for a truthy timeFilter
ListOptions(args, pg) ==
    [state |-> Param(args, "issueState"),
     per_page |-> PerPage,
     since |-> IF ~Falsy(Param(args, "timeFilter")) THEN Param(args, "timeFilter")
               ELSE Undefined,
     page |-> pg]

\* createIssueComment (api.ts, lines 60-85): how issues.createComment ends
CommentRequestOutcomes == {"201", "200", "exception"}
CreateIssueCommentResult(o) == o = "201"
\* addIssueLabels (api.ts, lines 87-102): how issues.addLabels ends
LabelsRequestOutcomes == {"resolved", "exception"}
AddIssueLabelsResult(o) == o = "resolved"
\* a variant that ends the run when the comment could not be posted
pcAfterCommentStopsOnFailure(success) == IF success THEN "labels" ELSE "done"
\* lines 220-227: whatever commentSuccess is, main goes on to the labels
PcAfterComment(success) == "labels"
BoolText(b) == IF b THEN "true" ELSE "false"

Init ==
    /\ pc = "start"
    /\ requiredInputs \in BOOLEAN
    /\ batchSizeInput \in BatchSizeInputs
    /\ issueStateInput \in IssueStateInputs
    /\ timeFilterInput \in TimeFilterInputs
    /\ postComment \in BOOLEAN
    /\ labels \in LabelInputs
    /\ batchSize = NaN
    /\ issueStateFilter = ""
    /\ timeFilter = ""
    /\ issuesToCompare = <<>>
    /\ batches = <<>>
    /\ i = 0
    /\ inFlight = 0
    /\ inferenceCalls = <<>>
    /\ externalCalls = <<>>
    /\ aiOutputs = <<>>
    /\ outcomes = <<>>
    /\ parsePos = 0
    /\ parsedOutputs = <<>>
    /\ commentBody = ""
    /\ error = ""
    /\ failedMark = FALSE
    /\ requestOutcomes = <<>>
    /\ listRequests = <<>>
    /\ commentSuccess = "none"
    /\ addLabelsSuccess = "none"
    /\ summaryWritten = FALSE
    /\ ChunkIdle /\ VerifyIdle /\ CommentIdle /\ PagesIdle

\* lines 17-60: read and validate the inputs
Startup ==
    /\ pc = "start"
    /\ LET err == StartupError(requiredInputs, batchSizeInput, issueStateInput,
                               timeFilterInput)
       IN  IF err # ""
           THEN /\ pc' = "threw"
                /\ error' = err
                /\ UNCHANGED <<batchSize, issueStateFilter, timeFilter>>
           ELSE /\ pc' = "fetch"
                /\ batchSize' = BatchSizeOf(batchSizeInput)
                /\ issueStateFilter' = issueStateInput
                /\ timeFilter' = (IF timeFilterInput # ""
                                  THEN DateToISOString(timeFilterInput) ELSE "")
                /\ UNCHANGED error
    /\ UNCHANGED <<requiredInputs, batchSizeInput, issueStateInput, timeFilterInput,
                   postComment, labels, issuesToCompare, batches, i, inFlight,
                   inferenceCalls, externalCalls, aiOutputs, outcomes, parsePos,
                   parsedOutputs, commentBody, failedMark,
                   requestOutcomes, listRequests, commentSuccess,
                   addLabelsSuccess, summaryWritten, chunkVars, verifyVars, commentVars, pagesVars>>

\* lines 82-89: await getIssuesToCompare, which returns what it collected
FetchIssues ==
    /\ pc = "fetch"
    /\ \E n \in 0..MaxIssues : issuesToCompare' = CandidateList(n)
    /\ externalCalls' = Append(externalCalls, "listForRepo")
    /\ listRequests' = Append(listRequests,
                              ListOptions(GetIssuesArgs(issueStateFilter, timeFilter), 1))
    /\ pc' = "fetched"
    /\ UNCHANGED <<requiredInputs, batchSizeInput, issueStateInput, timeFilterInput,
                   postComment, labels, batchSize, issueStateFilter, timeFilter,
                   batches, i, inFlight, inferenceCalls, aiOutputs, outcomes,
                   parsePos, parsedOutputs, commentBody, error, failedMark,
                   requestOutcomes, commentSuccess,
                   addLabelsSuccess, summaryWritten, chunkVars, verifyVars, commentVars, pagesVars>>

\* lines 94-99: nothing to compare; write the summary and return
NoIssues ==
    /\ pc = "fetched"
    /\ Len(issuesToCompare) = 0
    /\ summaryWritten' = TRUE
    /\ pc' = "done"
    /\ UNCHANGED <<requiredInputs, batchSizeInput, issueStateInput, timeFilterInput,
                   postComment, labels, batchSize, issueStateFilter, timeFilter,
                   issuesToCompare, batches, i, inFlight, inferenceCalls,
                   externalCalls, aiOutputs, outcomes, parsePos, parsedOutputs,
                   commentBody, error, failedMark,
                   requestOutcomes, listRequests, commentSuccess,
                   addLabelsSuccess, chunkVars, verifyVars, commentVars, pagesVars>>

\* lines 104-118: chunk the candidates and enter the inference loop
MakeBatches ==
    /\ pc = "fetched"
    /\ Len(issuesToCompare) # 0
    /\ batches' = chunk(issuesToCompare, batchSize)
    /\ i' = 0
    /\ aiOutputs' = <<>>
    /\ pc' = "loop"
    /\ UNCHANGED <<requiredInputs, batchSizeInput, issueStateInput, timeFilterInput,
                   postComment, labels, batchSize, issueStateFilter, timeFilter,
                   issuesToCompare, inFlight, inferenceCalls, externalCalls,
                   outcomes, parsePos, parsedOutputs, commentBody, error,
                   failedMark, requestOutcomes, listRequests, commentSuccess,
                   addLabelsSuccess, summaryWritten, chunkVars, verifyVars, commentVars, pagesVars>>

\* lines 119-140: build the prompt of batch i and call aiInference; an empty
\* batch makes buildBatchUserContent throw, which nothing catches
CallInference ==
    /\ pc = "loop"
    /\ LoopContinues(i, batches)
    /\ IF BatchIsEmpty(batches[i + 1])
       THEN /\ pc' = "threw"
            /\ error' = "Batch cannot be empty"
            /\ UNCHANGED <<inFlight, inferenceCalls, externalCalls>>
       ELSE /\ pc' = "awaiting"
            /\ inFlight' = inFlight + 1
            /\ inferenceCalls' = Append(inferenceCalls, UserContent(i, batches))
            /\ externalCalls' = Append(externalCalls, "aiInference")
            /\ UNCHANGED error
    /\ UNCHANGED <<requiredInputs, batchSizeInput, issueStateInput, timeFilterInput,
                   postComment, labels, batchSize, issueStateFilter, timeFilter,
                   issuesToCompare, batches, i, aiOutputs, outcomes, parsePos,
                   parsedOutputs, commentBody, failedMark,
                   requestOutcomes, listRequests, commentSuccess,
                   addLabelsSuccess, summaryWritten, chunkVars, verifyVars, commentVars, pagesVars>>

\* lines 133-150 and ai.ts: the call returns; keep a non-empty text; i++
InferenceReturns ==
    /\ pc = "awaiting"
    /\ \E o \in RequestOutcomes :
          /\ requestOutcomes' = Append(requestOutcomes, o)
          /\ outcomes' = Append(outcomes, AiInferenceResult(o))
          /\ aiOutputs' = KeepResponse(aiOutputs, AiInferenceResult(o))
          /\ failedMark' = (failedMark \/ AiInferenceSetsFailed(o))
    /\ inFlight' = inFlight - 1
    /\ i' = i + 1
    /\ pc' = "loop"
    /\ UNCHANGED <<requiredInputs, batchSizeInput, issueStateInput, timeFilterInput,
                   postComment, labels, batchSize, issueStateFilter, timeFilter,
                   issuesToCompare, batches, inferenceCalls, externalCalls,
                   parsePos, parsedOutputs, commentBody, error,
                   listRequests, commentSuccess,
                   addLabelsSuccess, summaryWritten, chunkVars, verifyVars, commentVars, pagesVars>>

\* lines 150-154: the inference loop ends; start the parse loop
LoopEnds ==
    /\ pc = "loop"
    /\ ~LoopContinues(i, batches)
    /\ parsedOutputs' = <<>>
    /\ parsePos' = 0
    /\ pc' = "parse"
    /\ UNCHANGED <<requiredInputs, batchSizeInput, issueStateInput, timeFilterInput,
                   postComment, labels, batchSize, issueStateFilter, timeFilter,
                   issuesToCompare, batches, i, inFlight, inferenceCalls,
                   externalCalls, aiOutputs, outcomes, commentBody, error,
                   failedMark, requestOutcomes, listRequests, commentSuccess,
                   addLabelsSuccess, summaryWritten, chunkVars, verifyVars, commentVars, pagesVars>>

\* the statement of the loop body that raises on this text, if any
RaisedAt(response) ==
    LET parsed == JsonParse(response)
    IN  IF parsed.threw THEN "JSON.parse"
        ELSE IF verifyJsonResponse(parsed.value) = "threw" THEN "verifyJsonResponse"
        ELSE "none"
\* a variant whose try block ends after JSON.parse
tryCoversParseOnly == {"JSON.parse"}
\* the calls inside the try block of lines 156-173
TryCovers == {"JSON.parse", "verifyJsonResponse"}
\* the exception leaves the loop body, and main with it
Escapes(response) == RaisedAt(response) \notin TryCovers \cup {"none"}

\* lines 155-180: parse and validate the next kept text
ParseResponse ==
    /\ pc = "parse"
    /\ parsePos < Len(aiOutputs)
    /\ IF Escapes(aiOutputs[parsePos + 1])
       THEN /\ pc' = "threw"
            /\ error' = RaisedAt(aiOutputs[parsePos + 1])
            /\ UNCHANGED <<parsedOutputs, parsePos>>
       ELSE /\ parsedOutputs' = ParseStep(parsedOutputs, aiOutputs[parsePos + 1])
            /\ parsePos' = parsePos + 1
            /\ UNCHANGED <<pc, error>>
    /\ UNCHANGED <<requiredInputs, batchSizeInput, issueStateInput,
                   timeFilterInput, postComment, labels, batchSize,
                   issueStateFilter, timeFilter, issuesToCompare, batches, i,
                   inFlight, inferenceCalls, externalCalls, aiOutputs, outcomes,
                   commentBody, failedMark,
                   requestOutcomes, listRequests, commentSuccess,
                   addLabelsSuccess, summaryWritten, chunkVars, verifyVars, commentVars, pagesVars>>

\* a variant that always goes on to publish
nothingToReportNever(po) == FALSE
\* line 187: parsedOutputs.length === 0
NothingToReport(po) == Len(po) = 0

\* lines 182-209: no match, write the summary and return; else render
ParseEnds ==
    /\ pc = "parse"
    /\ parsePos = Len(aiOutputs)
    /\ IF NothingToReport(parsedOutputs)
       THEN /\ pc' = "done"
            /\ summaryWritten' = TRUE
            /\ UNCHANGED commentBody
       ELSE /\ pc' = "comment"
            /\ commentBody' = MainCommentBody(parsedOutputs, issuesToCompare)
            /\ UNCHANGED summaryWritten
    /\ UNCHANGED <<requiredInputs, batchSizeInput, issueStateInput, timeFilterInput,
                   postComment, labels, batchSize, issueStateFilter, timeFilter,
                   issuesToCompare, batches, i, inFlight, inferenceCalls,
                   externalCalls, aiOutputs, outcomes, parsePos, parsedOutputs,
                   error, failedMark,
                   requestOutcomes, listRequests, commentSuccess,
                   addLabelsSuccess, chunkVars, verifyVars, commentVars, pagesVars>>

\* lines 211-225: post the comment when asked to; createIssueComment
\* catches its own errors
PostComment ==
    /\ pc = "comment"
    /\ IF postComment
       THEN \E o \in CommentRequestOutcomes :
               /\ externalCalls' = Append(externalCalls, "createComment")
               /\ commentSuccess' = BoolText(CreateIssueCommentResult(o))
               /\ pc' = PcAfterComment(CreateIssueCommentResult(o))
       ELSE /\ pc' = "labels"
            /\ UNCHANGED <<externalCalls, commentSuccess>>
    /\ UNCHANGED <<requiredInputs, batchSizeInput, issueStateInput, timeFilterInput,
                   postComment, labels, batchSize, issueStateFilter, timeFilter,
                   issuesToCompare, batches, i, inFlight, inferenceCalls,
                   aiOutputs, outcomes, parsePos, parsedOutputs, commentBody,
                   error, failedMark,
                   requestOutcomes, listRequests, addLabelsSuccess, summaryWritten, chunkVars, verifyVars, commentVars, pagesVars>>

\* lines 227-244: add the labels when there are any; write the summary
AddLabels ==
    /\ pc = "labels"
    /\ IF Len(labels) > 0
       THEN \E o \in LabelsRequestOutcomes :
               /\ externalCalls' = Append(externalCalls, "addLabels")
               /\ addLabelsSuccess' = BoolText(AddIssueLabelsResult(o))
       ELSE UNCHANGED <<externalCalls, addLabelsSuccess>>
    /\ summaryWritten' = TRUE
    /\ pc' = "done"
    /\ UNCHANGED <<requiredInputs, batchSizeInput, issueStateInput, timeFilterInput,
                   postComment, labels, batchSize, issueStateFilter, timeFilter,
                   issuesToCompare, batches, i, inFlight, inferenceCalls,
                   aiOutputs, outcomes, parsePos, parsedOutputs, commentBody,
                   error, failedMark,
                   requestOutcomes, listRequests, commentSuccess,
                   chunkVars, verifyVars, commentVars, pagesVars>>

Next ==
    \/ Startup
    \/ FetchIssues
    \/ NoIssues
    \/ MakeBatches
    \/ CallInference
    \/ InferenceReturns
    \/ LoopEnds
    \/ ParseResponse
    \/ ParseEnds
    \/ PostComment
    \/ AddLabels

Spec == Init /\ [][Next]_vars

\* main is one async function: every await resumes once its call has
\* returned or failed, and the loops run to their bounds, so an enabled
\* step of the run is eventually taken
\* The filters only travel to the issue source and never decide a branch
\* after start-up, so the fair runs start from one accepted and one rejected
\* value of each.
FairInit ==
    /\ Init
    /\ issueStateInput \in {"open", "OPEN"}
    /\ timeFilterInput \in {"", "invalid-date"}

SpecFair == FairInit /\ [][Next]_vars /\ WF_vars(Next)

-----------------------------------------------------------------------------
(* Properties of the run, under Spec.                                      *)

\* the run has left the inference loop, or the parse loop
AfterLoop == pc \in {"parse", "comment", "labels", "done"} /\ batches # <<>>
AfterParse == pc \in {"comment", "labels", "done"} /\ batches # <<>>

\* what a batch is entitled to contribute: the elements of its response when
\* that is a text that parses as JSON to an accepted array, else nothing
ValidElements(resp) ==
    IF resp.t = "string" /\ ~JsonParse(resp.s).threw /\ Accepted(JsonParse(resp.s).value)
    THEN JsonParse(resp.s).value.a
    ELSE <<>>

RECURSIVE SumLen(_)
SumLen(ss) == IF ss = <<>> THEN 0 ELSE Len(Head(ss)) + SumLen(Tail(ss))
Range(f) == {f[x] : x \in DOMAIN f}
Contributions == [j \in 1..Len(outcomes) |-> ValidElements(outcomes[j])]

\* C1: a failing batch (no response, not JSON, failing validation)
\* contributes nothing and never aborts the run: once a batch has been sent
\* the run does not end in an error, every batch is sent and answered, and
\* every batch with a valid array contributes all of its elements.
C1_FailureIsolation ==
    /\ pc = "threw" => inferenceCalls = <<>>
    /\ AfterLoop => Len(inferenceCalls) = Len(batches) /\ Len(outcomes) = Len(batches)
    /\ AfterParse =>
          /\ Len(parsedOutputs) = SumLen(Contributions)
          /\ \A j \in 1..Len(outcomes) : Range(Contributions[j]) \subseteq Range(parsedOutputs)

\* 7 candidates in batches of 3; the second answer is not JSON, the first and
\* the third each hold one match
C1_Witness ==
    /\ pc = "done"
    /\ Len(issuesToCompare) = 7
    /\ batchSize = Num(3)
    /\ outcomes = <<JStr(TextOne), JStr(TextProse), JStr(TextOne)>>
    /\ Len(parsedOutputs) = 2

\* the texts the inference loop keeps: the non-empty ones, in batch order
KeptTexts == [j \in 1..Len(SelectSeq(outcomes, LAMBDA r : ~Falsy(r))) |->
                 SelectSeq(outcomes, LAMBDA r : ~Falsy(r))[j].s]

\* C2: at every step of the parse phase and at its end, parsedOutputs is the
\* concatenation, in batch order, of the element lists of exactly the
\* batches whose text parsed as JSON and passed validation, unaltered.
C2_AggregateIsConcatenation ==
    /\ aiOutputs = KeptTexts
    /\ pc = "parse" =>
          parsedOutputs = Flatten([j \in 1..parsePos |-> ValidElements(JStr(aiOutputs[j]))])
    /\ AfterParse => parsedOutputs = Flatten(Contributions)

\* mid-parse: two texts consumed, the second rejected as a whole, a third left
C2_Witness ==
    /\ pc = "parse"
    /\ parsePos = 2
    /\ aiOutputs = <<TextTwo, TextPartlyInvalid, TextOne>>
    /\ Len(parsedOutputs) = 2
    /\ parsedOutputs[1].issue = JNum(4)

\* C6: with n > 0 candidates and batch size k, aiInference is called exactly
\* ceil(n/k) times, once per batch in batch order, whatever the calls
\* return, and a call is issued only after the previous one has returned.
C6_SequentialCalls ==
    /\ inFlight \in {0, 1}
    /\ Len(inferenceCalls) = Len(outcomes) + inFlight
    /\ \A j \in 1..Len(inferenceCalls) :
          /\ inferenceCalls[j].batch = batches[j]
          /\ inferenceCalls[j].batchId[1] = j
    /\ (AfterLoop /\ ~batchSize.nan) =>
          Len(inferenceCalls) =
              (Len(issuesToCompare) + batchSize.n - 1) \div batchSize.n

\* three calls for 7 candidates in batches of 3, the first of which failed
C6_Witness ==
    /\ pc = "parse"
    /\ Len(issuesToCompare) = 7
    /\ batchSize = Num(3)
    /\ Len(inferenceCalls) = 3
    /\ Len(inferenceCalls[3].batch) = 1
    /\ outcomes[1] = Undefined
    /\ failedMark

\* C7: for every accepted batch_size input, every batch the run constructs
\* is non-empty and holds at most batch_size <= 100 candidates, and
\* buildBatchUserContent never raises "Batch cannot be empty".
C7_BatchesNonEmpty ==
    /\ \A j \in 1..Len(batches) :
          /\ Len(batches[j]) >= 1
          /\ Len(batches[j]) <= MaxBatchSize
          /\ JsLe(Num(Len(batches[j])), batchSize)
    /\ error # "Batch cannot be empty"

\* C8: the run proceeds past start-up only with a batch size in [1,100], a
\* state filter among all, open, closed and a time filter that parses; in
\* every other case it ends in an error before any external call.
C8_FailFast ==
    /\ pc \notin {"start", "threw"} =>
          /\ ~BatchSizeOf(batchSizeInput).nan
          /\ BatchSizeOf(batchSizeInput).n \in 1..MaxBatchSize
          /\ issueStateInput \in {"all", "open", "closed"}
          /\ timeFilterInput # "" => DateValid(timeFilterInput)
    /\ pc = "threw" => externalCalls = <<>>

-----------------------------------------------------------------------------
(* Termination, publishing and the requests the run sends.                 *)

\* the inputs form a valid configuration: the required ones are set, the
\* batch size is absent or an integer in [1,100], the state filter is one of
\* all, open, closed and the time filter is absent or parses as a date
ValidConfig ==
    /\ requiredInputs
    /\ \/ batchSizeInput = ""
       \/ /\ ~ParseInt(batchSizeInput).nan
          /\ ParseInt(batchSizeInput).n \in 1..MaxBatchSize
    /\ IssueStateValid(issueStateInput)
    /\ timeFilterInput = "" \/ DateValid(timeFilterInput)

\* C11: every run whose start-up configuration is valid eventually reaches
\* the final step-summary write, on every path (no candidates, all batches
\* failed, empty aggregate, matches found, comment or label failure), and
\* never ends with an unhandled error.
C11_FinalReport ==
    /\ ValidConfig ~> (pc = "done" /\ summaryWritten)
    /\ [](ValidConfig => pc # "threw")
    /\ [](summaryWritten => pc = "done")

\* a run with matches whose comment and labels both failed to publish
C11_Witness ==
    /\ ValidConfig
    /\ pc = "done"
    /\ summaryWritten
    /\ failedMark
    /\ commentSuccess = "false"
    /\ addLabelsSuccess = "false"

\* how many times the run has called an external operation
Count(calls, name) == Cardinality({j \in 1..Len(calls) : calls[j] = name})

\* C12: createIssueComment and addIssueLabels are called only in runs whose
\* aggregate is non-empty after all batches: the comment is posted at most
\* once and only when post_comment is true, labels are applied at most once
\* and only when the label list is non-empty, and neither is called when no
\* candidate was fetched or no match was validated.
C12_PublishOnlyWithMatches ==
    /\ Count(externalCalls, "createComment") <= 1
    /\ Count(externalCalls, "addLabels") <= 1
    /\ Count(externalCalls, "createComment") = 1 =>
          postComment /\ AfterParse /\ Len(parsedOutputs) > 0
    /\ Count(externalCalls, "addLabels") = 1 =>
          Len(labels) > 0 /\ AfterParse /\ Len(parsedOutputs) > 0
    /\ (pc = "done" /\ (Len(issuesToCompare) = 0 \/ Len(parsedOutputs) = 0)) =>
          /\ Count(externalCalls, "createComment") = 0
          /\ Count(externalCalls, "addLabels") = 0
    /\ (pc = "done" /\ Len(parsedOutputs) > 0) =>
          /\ Count(externalCalls, "createComment") = (IF postComment THEN 1 ELSE 0)
          /\ Count(externalCalls, "addLabels") = (IF Len(labels) > 0 THEN 1 ELSE 0)

\* a finished run that published both, after one match in two batches
C12_Witness ==
    /\ pc = "done"
    /\ Len(batches) = 2
    /\ Len(parsedOutputs) = 1
    /\ Count(externalCalls, "createComment") = 1
    /\ Count(externalCalls, "addLabels") = 1

\* a publishing step leaves the aggregate and the rendered text alone
PublishKeepsResults ==
    pc \in {"comment", "labels"} =>
        (parsedOutputs' = parsedOutputs /\ commentBody' = commentBody)

\* C13: a publish failure is not fatal and changes nothing already
\* computed: after a failed createIssueComment (non-201 status or exception)
\* addIssueLabels is still called when labels are configured, after a failed
\* addIssueLabels the run still completes with its summary, and the
\* aggregate and the rendered text are what the responses alone determine,
\* untouched by the publishing steps.
C13_PublishFailureNonFatal ==
    /\ [](commentSuccess = "false" => pc \in {"labels", "done"})
    /\ []((pc = "done" /\ commentSuccess = "false" /\ Len(labels) > 0) =>
             Count(externalCalls, "addLabels") = 1)
    /\ [](addLabelsSuccess = "false" => (pc = "done" /\ summaryWritten))
    /\ []((AfterParse /\ Len(parsedOutputs) > 0) =>
             /\ parsedOutputs = Flatten(Contributions)
             /\ commentBody = MainCommentBody(parsedOutputs, issuesToCompare))
    /\ [][PublishKeepsResults]_vars

\* the comment came back with a non-201 status, the labels raised an
\* exception, and the run completed
C13_Witness ==
    /\ pc = "done"
    /\ summaryWritten
    /\ commentSuccess = "false"
    /\ addLabelsSuccess = "false"
    /\ externalCalls[Len(externalCalls)] = "addLabels"
    /\ ~failedMark
    /\ Len(parsedOutputs) = 2

\* the State lines buildCommentBody can push for candidates of the run
StateLineTexts == {"**State:** " \o st : st \in {"open", "closed", "N/A"}}
WithoutStateLines(lines) == SelectSeq(lines, LAMBDA l : l \notin StateLineTexts)
\* the lines buildCommentBody joins for the aggregate of the run
FullReportLines ==
    commentLinesFrom(parsedOutputs, issuesToCompare, 1, <<CommentHeading, CommentIntro, "">>)

C15_BatchHeaderIndex ==
    \A j \in 1..Len(inferenceCalls) :
        inferenceCalls[j].header = "Candidate Issues (Batch " \o ToString(j) \o "):"

\* C16: every listForRepo request of a run carries as its state filter the
\* value (all, open or closed) validated at start-up, and carries the
\* normalized time filter as since when one was provided.
C16_ListingCarriesFilters ==
    \A j \in 1..Len(listRequests) :
        /\ listRequests[j].state = JStr(issueStateFilter)
        /\ issueStateFilter \in ValidStates
        /\ timeFilter # "" => listRequests[j].since = JStr(timeFilter)
        /\ timeFilter = "" => listRequests[j].since = Undefined

\* the default the README documents for batch_size
DocumentedDefaultBatchSize == 10

\* C17: when batch_size is not provided the run uses the documented default
\* of 10: every batch holds at most 10 candidates and a run over n
\* candidates makes ceil(n/10) inference calls.
C17_DocumentedDefault ==
    (batchSizeInput = "" /\ pc \notin {"start", "threw"}) =>
        /\ batchSize = Num(DocumentedDefaultBatchSize)
        /\ \A j \in 1..Len(batches) : Len(batches[j]) <= DocumentedDefaultBatchSize
        /\ AfterLoop =>
              Len(inferenceCalls) =
                  (Len(issuesToCompare) + DocumentedDefaultBatchSize - 1)
                      \div DocumentedDefaultBatchSize

\* The per-batch pipeline: batch k is answered, parsed, validated and
\* appended before batch k + 1 starts.  No text: nothing.  A text, the empty
\* one included, is parsed; a parse failure, a rejected or a throwing
\* validation: nothing.  An accepted array: all its elements, in order.
RECURSIVE PerBatchPipeline(_, _, _)
PerBatchPipeline(resps, k, agg) ==
    IF k > Len(resps) THEN agg
    ELSE LET r == resps[k]
             parsed == JsonParse(r.s)
         IN  IF r.t # "string" THEN PerBatchPipeline(resps, k + 1, agg)
             ELSE IF parsed.threw THEN PerBatchPipeline(resps, k + 1, agg)
             ELSE IF verifyJsonResponse(parsed.value) = "true"
                  THEN PerBatchPipeline(resps, k + 1, agg \o parsed.value.a)
                  ELSE PerBatchPipeline(resps, k + 1, agg)

\* C18: calling inference for every batch and keeping the non-empty texts,
\* then parsing and validating the kept texts, yields for every sequence of
\* responses, absent and empty ones included, the aggregate of the
\* per-batch pipeline.
C18_TwoPhaseEqualsPerBatch ==
    /\ AfterParse => parsedOutputs = PerBatchPipeline(outcomes, 1, <<>>)
    /\ pc = "parse" =>
          \E n \in 0..Len(outcomes) :
              parsedOutputs = PerBatchPipeline(SubSeq(outcomes, 1, n), 1, <<>>)

\* an empty text, an absent response, then two matches
C18_Witness ==
    /\ pc = "done"
    /\ outcomes = <<JStr(""), Undefined, JStr(TextTwo)>>
    /\ aiOutputs = <<TextTwo>>
    /\ Len(parsedOutputs) = 2

\* nothing in the run clears the failed mark of core.setFailed
FailedMarkKept == failedMark => failedMark'

\* C19: when the inference call of a batch raises an error, aiInference
\* marks the run failed and returns nothing; the mark is never cleared, so
\* the run ends marked failed even when the other batches succeed and a
\* comment and labels are published, and the remaining batches are still
\* called and aggregated.
C19_InferenceErrorMarksFailed ==
    /\ [](\A j \in 1..Len(requestOutcomes) :
             requestOutcomes[j].kind = "error" =>
                 (outcomes[j] = Undefined /\ failedMark))
    /\ [](failedMark => \E j \in 1..Len(requestOutcomes) :
                            requestOutcomes[j].kind = "error")
    /\ [](AfterLoop => Len(requestOutcomes) = Len(batches))
    /\ [](AfterParse => parsedOutputs = Flatten(Contributions))
    /\ [][FailedMarkKept]_vars

\* the first of three calls raised an error, the other two found matches,
\* comment and labels were published, and the run ends marked failed
C19_Witness ==
    /\ pc = "done"
    /\ failedMark
    /\ Len(requestOutcomes) = 3
    /\ requestOutcomes[1].kind = "error"
    /\ requestOutcomes[2].kind = "content"
    /\ requestOutcomes[3].kind = "content"
    /\ Len(parsedOutputs) = 3
    /\ commentSuccess = "true"
    /\ addLabelsSuccess = "true"

\* the next kept text parses as JSON and makes verifyJsonResponse raise
ValidationThrowsNext ==
    /\ pc = "parse"
    /\ parsePos < Len(aiOutputs)
    /\ RaisedAt(aiOutputs[parsePos + 1]) = "verifyJsonResponse"
\* the next kept text is not JSON
ParseThrowsNext ==
    /\ pc = "parse"
    /\ parsePos < Len(aiOutputs)
    /\ RaisedAt(aiOutputs[parsePos + 1]) = "JSON.parse"
\* what the catch block of the parse loop leaves behind
CaughtAndContinued ==
    /\ pc' = "parse"
    /\ error' = error
    /\ parsedOutputs' = parsedOutputs
    /\ parsePos' = parsePos + 1
    /\ aiOutputs' = aiOutputs
HandlerStep == (ValidationThrowsNext \/ ParseThrowsNext) => CaughtAndContinued

\* C20: an exception raised while validating a parsed response is caught
\* by the same handler as a JSON parse error: the response contributes
\* nothing, the aggregate built so far is unchanged, and every later
\* response is still parsed and validated.
C20_ValidationExceptionCaught ==
    /\ [][HandlerStep]_vars
    /\ [](AfterParse =>
             /\ parsePos = Len(aiOutputs)
             /\ parsedOutputs =
                   Flatten([j \in 1..Len(aiOutputs) |-> ValidElements(JStr(aiOutputs[j]))]))

\* a numeric likelihood between two valid answers: both still counted
C20_Witness ==
    /\ pc = "done"
    /\ aiOutputs = <<TextOne, TextNumericLikelihood, TextTwo>>
    /\ Len(parsedOutputs) = 3
    /\ parsedOutputs[1].issue = JNum(1)
    /\ parsedOutputs[3].issue = JNum(2)

-----------------------------------------------------------------------------
(* getIssuesToCompare (api.ts, lines 8-58), one step per await.            *)

\* an entry of response.data; its body is a text or null
RawIssue(number, rawBody) ==
    [number |-> number, title |-> "T", body |-> rawBody, state |-> "open"]

\* the page the issue source answers with: len entries numbered after the
\* page, the one at targetAt (if any) being the issue of the run
RawPage(pg, len, targetAt) ==
    [k \in 1..len |->
        RawIssue(IF k = targetAt THEN issueNumber ELSE 1000 * pg + k,
                 IF k % 2 = 0 THEN JNull ELSE JStr("text"))]
PageLens == {0, 1, PerPage - 1, PerPage}
TargetPositions(len) == {0} \cup ({1, len} \cap 1..len)
IssueNumbers == {7, 42}

\* lines 36-45: .filter((issue) => issue.number !== issueNumber).map(...)
FilterTarget(pageData, target) == SelectSeq(pageData, LAMBDA it : it.number # target)
MapIssue(it) ==
    [number |-> it.number, title |-> it.title,
     body |-> IF Falsy(it.body) THEN "" ELSE it.body.s, state |-> it.state]
PageIssues(pageData, target) ==
    [k \in 1..Len(FilterTarget(pageData, target)) |->
        MapIssue(FilterTarget(pageData, target)[k])]

\* a variant that measures the page after the target was filtered out
pageIsShortAfterFilter(pageData, pageIssues) == Len(pageIssues) < PerPage
\* line 49: response.data.length < per_page
PageIsShort(pageData, pageIssues) == Len(pageData) < PerPage
\* line 34: !response.data.length
PageIsEmpty(pageData) == Len(pageData) = 0

PagesInit ==
    /\ issueNumber \in IssueNumbers
    /\ collected = <<>>
    /\ page = 1
    /\ pageRequests = <<>>
    /\ received = <<>>
    /\ pagesPc = "request"
    /\ returnValue = <<>>
    /\ MainIdle /\ ChunkIdle /\ VerifyIdle /\ CommentIdle

\* lines 28-32: await octokit.rest.issues.listForRepo({...optionsBase, page})
RequestPage ==
    /\ pagesPc = "request"
    /\ pageRequests' = Append(pageRequests, ListOptions(GetIssuesArgs("open", ""), page))
    /\ pagesPc' = "awaiting"
    /\ UNCHANGED <<issueNumber, collected, page, received, returnValue,
                   mainVars, chunkVars, verifyVars, commentVars>>

\* lines 34-50: the page arrives; break and return on an empty or a short
\* page, else go on to the next.  The issue source holds at most MaxPages
\* pages, so the last of them is not full.
PageArrives ==
    /\ pagesPc = "awaiting"
    /\ \E len \in PageLens :
          /\ page = MaxPages => len < PerPage
          /\ \E targetAt \in TargetPositions(len) :
                LET pageData == RawPage(page, len, targetAt)
                    pageIssues == PageIssues(pageData, issueNumber)
                IN  /\ received' = Append(received, [kind |-> "data", data |-> pageData])
                    /\ IF PageIsEmpty(pageData)
                       THEN /\ pagesPc' = "returned"
                            /\ returnValue' = collected
                            /\ UNCHANGED <<collected, page>>
                       ELSE /\ collected' = collected \o pageIssues
                            /\ IF PageIsShort(pageData, pageIssues)
                               THEN /\ pagesPc' = "returned"
                                    /\ returnValue' = collected'
                                    /\ UNCHANGED page
                               ELSE /\ pagesPc' = "request"
                                    /\ page' = page + 1
                                    /\ UNCHANGED returnValue
    /\ UNCHANGED <<issueNumber, pageRequests, mainVars, chunkVars, verifyVars,
                   commentVars>>

\* lines 51-54 and 57: the request fails; log, break and return
PageFails ==
    /\ pagesPc = "awaiting"
    /\ received' = Append(received, [kind |-> "error"])
    /\ pagesPc' = "returned"
    /\ returnValue' = collected
    /\ UNCHANGED <<issueNumber, collected, page, pageRequests,
                   mainVars, chunkVars, verifyVars, commentVars>>

PagesNext ==
    \/ RequestPage
    \/ PageArrives
    \/ PageFails

SpecPages == PagesInit /\ [][PagesNext]_vars

\* the page that ends the pagination: failed, empty, or under 100 entries
EndsPagination(r) == r.kind = "error" \/ Len(r.data) = 0 \/ Len(r.data) < PerPage

\* what a received page is entitled to contribute: its entries other than
\* the target, in page order; nothing for a failed request
NumbersExceptTarget(pageData) ==
    LET drop == {k \in 1..Len(pageData) : pageData[k].number = issueNumber}
        \* the position of the m-th entry that is kept
        nth(m) == CHOOSE k \in (m..(m + Cardinality(drop))) \ drop :
                      k - Cardinality({h \in drop : h < k}) = m
    IN  [m \in 1..(Len(pageData) - Cardinality(drop)) |-> pageData[nth(m)].number]
ExpectedNumbers ==
    Flatten([j \in 1..Len(received) |->
                IF received[j].kind = "error" THEN <<>>
                ELSE NumbersExceptTarget(received[j].data)])
NumbersOf(issues) == [k \in 1..Len(issues) |-> issues[k].number]

\* C21: getIssuesToCompare requests pages 1, 2, 3, ... in order and stops
\* after the first page that is empty, holds fewer than 100 raw entries or
\* whose request fails; it returns, in page order, every issue of the pages
\* received except the target, so the result never holds the target, a full
\* page stays full when the target is filtered out of it, and a failed page
\* discards nothing already collected.
C21_Pagination ==
    /\ \A j \in 1..Len(pageRequests) :
          pageRequests[j].page = j /\ pageRequests[j].per_page = PerPage
    /\ Len(pageRequests) = Len(received) + (IF pagesPc = "awaiting" THEN 1 ELSE 0)
    /\ \A j \in 1..(Len(received) - 1) : ~EndsPagination(received[j])
    /\ (pagesPc \in {"request", "awaiting"} /\ received # <<>>) =>
          ~EndsPagination(received[Len(received)])
    /\ pagesPc = "returned" =>
          /\ received # <<>>
          /\ EndsPagination(received[Len(received)])
          /\ returnValue = collected
    /\ NumbersOf(collected) = ExpectedNumbers
    /\ \A k \in 1..Len(collected) : collected[k].number # issueNumber
    /\ pagesPc # "returned" => returnValue = <<>>

\* a full first page holding the target, a full second page, a failed third
\* request: 199 issues returned
C21_Witness ==
    /\ pagesPc = "returned"
    /\ Len(pageRequests) = 3
    /\ \E k \in 1..PerPage : received[1].data[k].number = issueNumber
    /\ Len(received[1].data) = PerPage
    /\ received[3].kind = "error"
    /\ Len(returnValue) = 2 * PerPage - 1

=============================================================================
